---- MODULE Spec2Model ----
(***************************************************************************)
(* A model of fancontrol.c (luci-app-fancontrol): the PID step, the speed  *)
(* mapping, the rolling temperature log, the startup sequence, the control *)
(* loop and the termination handler.                                       *)
(*                                                                         *)
(* Numbers.  The C floats are modelled as exact fixed-point integers:      *)
(*   a temperature, an error, the integral      x  is the integer x * FP   *)
(*   a gain (Kp, Ki, Kd)                        g  is the integer g * FP   *)
(*   a PID output (gain * error)                o  is the integer o * FP^2 *)
(* so Kd = 0.01 is 1, 54.99 degrees is 5499 and the output 60.1 is 601000. *)
(* Float rounding error is not modelled; all sampled values are exact in   *)
(* this representation.  NaN and infinities (temp_div = 0) are outside it. *)
(***************************************************************************)
EXTENDS Integers, Sequences, FiniteSets, TLC

(***************************************************************************)
(* Bounds of the model.                                                    *)
(***************************************************************************)
MaxCalls == 3       \* calls of calculate_speed_set in SpecCalc
MaxLogEvents == 4   \* calls of log_temperature in SpecLog
MaxTicks == 2       \* iterations of the control loop in Spec
MaxOpts == 2        \* options given per configuration source in SpecStartup

(***************************************************************************)
(* Program constants and the fixed-point scales.                           *)
(***************************************************************************)
FP == 100                      \* resolution of a modelled float
OutScale == FP * FP            \* scale of a PID output
MAX_TEMP == 120
IntegralMax == 100             \* upper clamp of the integral (100.0)
OutputMax == 100               \* upper clamp of the PID output (100.0)
PctDen == 100 * OutScale       \* percentage = pid_output / 100.0, as a fraction
HourSeconds == 3600
DefaultMaxLines == 360
ReadFailure == -1              \* get_temperature's failure value (-1.0)

Min(a, b) == IF a <= b THEN a ELSE b
Max(a, b) == IF a >= b THEN a ELSE b

\* C's conversion of a quotient to int: truncation toward zero (b > 0).
TruncDiv(a, b) == IF a >= 0 THEN a \div b ELSE -((-a) \div b)

(***************************************************************************)
(* PID_Init and PID_Calculate.                                             *)
(***************************************************************************)
PID_Init(kp, ki, kd) ==
    [Kp |-> kp, Ki |-> ki, Kd |-> kd, integral |-> 0, prev_error |-> 0]

\* if (integral > 100.0) integral = 100.0; if (integral < 0.0) integral = 0.0;
ClampIntegral_NoUpper(x) == IF x < 0 THEN 0 ELSE x
ClampIntegral(x) ==
    LET hi == IF x > IntegralMax * FP THEN IntegralMax * FP ELSE x
    IN  IF hi < 0 THEN 0 ELSE hi

\* Kp * error + Ki * integral + Kd * derivative, in units of 1/OutScale
PID_Output_NoDerivative(p, error, integral, derivative) ==
    p.Kp * error + p.Ki * integral
PID_Output(p, error, integral, derivative) ==
    p.Kp * error + p.Ki * integral + p.Kd * derivative

\* float error = actual_value - setpoint;
PID_Error_Reversed(setpoint, actual_value) == setpoint - actual_value
PID_Error(setpoint, actual_value) == actual_value - setpoint

\* dt is a whole number of time units (the code only ever passes 1.0).
PID_Calculate(p, setpoint, actual_value, dt) ==
    LET error == PID_Error(setpoint, actual_value)
        integral == ClampIntegral(p.integral + error * dt)
        derivative == TruncDiv(error - p.prev_error, dt)
    IN  [pid |-> [p EXCEPT !.integral = integral, !.prev_error = error],
         output |-> PID_Output(p, error, integral, derivative)]

(***************************************************************************)
(* The speed mapping of calculate_speed_set (lines 279-310).               *)
(***************************************************************************)
\* pid_output: the PID output limited to [0, 100]
ClampOutput_NoUpper(output) == IF output < 0 THEN 0 ELSE output
ClampOutput(output) ==
    IF output < 0 THEN 0
    ELSE IF output > OutputMax * OutScale THEN OutputMax * OutScale
    ELSE output

\* fan_speed_float, in units of 1/PctDen (percentage <= 0.0 iff pid_output <= 0)
FanSpeedFloat_NoMin(pid_output, max_speed, min_speed) ==
    IF pid_output <= 0 THEN 0 ELSE pid_output * max_speed
FanSpeedFloat_NoStop(pid_output, max_speed, min_speed) ==
    min_speed * PctDen + pid_output * (max_speed - min_speed)
FanSpeedFloat(pid_output, max_speed, min_speed) ==
    IF pid_output <= 0 THEN 0
    ELSE min_speed * PctDen + pid_output * (max_speed - min_speed)

RoundSpeed_Truncate(fan_speed_float) == TruncDiv(fan_speed_float, PctDen)
\* (int)(fan_speed_float + 0.5)
RoundSpeed(fan_speed_float) == TruncDiv(2 * fan_speed_float + PctDen, 2 * PctDen)

\* if (s > max_speed) s = max_speed; else if (s < 0) s = 0;
LimitSpeed_NoUpper(s, max_speed) == IF s < 0 THEN 0 ELSE s
LimitSpeed(s, max_speed) ==
    IF s > max_speed THEN max_speed ELSE IF s < 0 THEN 0 ELSE s

SpeedFromOutput(output, max_speed, min_speed) ==
    LimitSpeed(RoundSpeed(FanSpeedFloat(ClampOutput(output), max_speed, min_speed)),
               max_speed)

calculate_speed_set_Reinit(p, init, gains, current_temp, max_temp, target, max_spd, min_spd) ==
    LET r == PID_Calculate(PID_Init(gains.Kp, gains.Ki, gains.Kd),
                           target * FP, current_temp, 1)
    IN  [pid |-> r.pid, output |-> r.output,
         speed |-> SpeedFromOutput(r.output, max_spd, min_spd)]

\* The whole function: the static controller is initialised on the first call
\* from the global gains, then one PID step and the mapping.
calculate_speed_set(p, init, gains, current_temp, max_temp, target, max_spd, min_spd) ==
    LET p0 == IF init THEN p ELSE PID_Init(gains.Kp, gains.Ki, gains.Kd)
        r == PID_Calculate(p0, target * FP, current_temp, 1)
    IN  [pid |-> r.pid, output |-> r.output,
         speed |-> SpeedFromOutput(r.output, max_spd, min_spd)]

(***************************************************************************)
(* log_temperature: the rolling log is the sequence of its lines, newest   *)
(* first.                                                                  *)
(***************************************************************************)
\* "%.1f": the temperature printed with one decimal
FormatTemp(t) == IF t >= 0 THEN (t + 5) \div 10 ELSE -((5 - t) \div 10)

\* "[%Y-%m-%d %H:%M:%S] %.1f\n"
LogLine(time, t) == [time |-> time, temp |-> FormatTemp(t)]

\* const size_t max_lines = (log_interval > 0) ? (3600 / log_interval) : 360;
MaxLines(interval) ==
    IF interval > 0 THEN HourSeconds \div interval ELSE DefaultMaxLines

\* max_lines - 1 in size_t: 0 - 1 wraps to SIZE_MAX.  SIZE_MAX stands for
\* 2^32 - 1 or 2^64 - 1; any value above every line count behaves the same.
SIZE_MAX == 2147483647
SizeMinusOne(n) == IF n = 0 THEN SIZE_MAX ELSE n - 1

\* size_t lines_to_write = (line_count < max_lines - 1) ? line_count : max_lines - 1;
LinesToWrite(line_count, max_lines) ==
    IF line_count < SizeMinusOne(max_lines) THEN line_count
    ELSE SizeMinusOne(max_lines)

log_temperature_Truncating(file, time, current_temp, interval, read_ok, write_ok) ==
    IF write_ok THEN <<LogLine(time, current_temp)>> ELSE << >>
\* The stored log after the call.  read_ok / write_ok: whether fopen(.., "r")
\* and fopen(.., "w") succeed.
log_temperature(file, time, current_temp, interval, read_ok, write_ok) ==
    LET lines == IF read_ok THEN file ELSE << >>
        n == LinesToWrite(Len(lines), MaxLines(interval))
    IN  IF write_ok
        THEN <<LogLine(time, current_temp)>> \o SubSeq(lines, 1, n)
        ELSE file

(***************************************************************************)
(* State.                                                                  *)
(***************************************************************************)
VARIABLES
    \* the global configuration variables (lines 24-39)
    thermal_file, fan_pwm_file, fan_speed_file,
    start_speed, target_temp, max_speed, temp_div, debug_mode,
    Kp, Ki, Kd, log_interval, pid_interval,
    \* the environment: the command line, /etc/config/fancontrol, the
    \* endpoints that exist, the wall clock
    argv, config_file, fs, now,
    \* the process: position in main, exit status, handlers registered
    pc, exit_code, handlers,
    \* the locals of main
    temperature, last_log_time, last_pid_time, fan_speed_set,
    \* the statics of calculate_speed_set and its local 'output'
    pid, initialized, output,
    \* /tmp/log/log.fancontrol_temp, the values that reached the fan
    \* endpoint, and the stdio stream of the loop's write_file
    logfile, fan_sink, stream,
    \* history: whether the last temperature read succeeded, the previous
    \* call's output and speed, the lines logged since the log was last
    \* empty, counters of calls / log events / loop iterations, and whether
    \* the temperature of the last call (calc_temp), and whether every
    \* temperature passed to calculate_speed_set so far was below the target
    \* (all_below) and also not above the one passed before it (non_rising)
    read_ok, prev_output, prev_speed, log_hist, calls, log_events, ticks,
    calc_temp, all_below, non_rising,
    \* history: the outcome <<read_ok, write_ok>> of the last log_temperature
    \* call, the endpoints that passed the startup check, and whether a
    \* termination signal was delivered
    log_io, checked, signalled

cfgVars == <<thermal_file, fan_pwm_file, fan_speed_file, start_speed,
             target_temp, max_speed, temp_div, debug_mode,
             Kp, Ki, Kd, log_interval, pid_interval>>
envVars == <<argv, config_file, fs>>
procVars == <<pc, exit_code, handlers>>
timerVars == <<last_log_time, last_pid_time>>
calcVars == <<pid, initialized, output, fan_speed_set, prev_output,
              prev_speed, calls, calc_temp, all_below, non_rising>>
logVars == <<logfile, log_hist, log_events, log_io>>
auditVars == <<checked, signalled>>
vars == <<cfgVars, envVars, procVars, timerVars, calcVars, logVars, auditVars,
          now, temperature, read_ok, fan_sink, stream, ticks>>

(***************************************************************************)
(* Defaults (lines 24-39) and the values the sources may carry.            *)
(***************************************************************************)
DefaultConfig ==
    [thermal_file |-> "T_def", fan_pwm_file |-> "F_def",
     fan_speed_file |-> "S_def", start_speed |-> 35, target_temp |-> 55,
     max_speed |-> 255, temp_div |-> 1000, debug_mode |-> 0,
     Kp |-> 500, Ki |-> 100, Kd |-> 1, log_interval |-> 10,
     pid_interval |-> 30]

Epoch == 1000     \* the clock when the process starts (time() is far above
                  \* every interval, so both timers are due on the first tick)
ClosedStream == [open |-> FALSE, buf |-> << >>]
ZeroPid == [Kp |-> 0, Ki |-> 0, Kd |-> 0, integral |-> 0, prev_error |-> 0]
NoneChecked == [thermal |-> "", pwm |-> ""]

\* The parts of the state a unit specification does not use.
IdleProcess ==
    /\ argv = [bad |-> FALSE, opts |-> << >>]
    /\ config_file = [exists |-> FALSE, kv |-> << >>]
    /\ fs = {"T_def", "F_def"}
    /\ now = Epoch
    /\ pc = "unit" /\ exit_code = 0 /\ handlers = FALSE
    /\ temperature = 0 /\ read_ok = TRUE
    /\ last_log_time = 0 /\ last_pid_time = 0
    /\ fan_sink = << >> /\ stream = ClosedStream /\ ticks = 0
    /\ checked = NoneChecked /\ signalled = FALSE

InitCalcState ==
    /\ pid = ZeroPid /\ initialized = FALSE /\ output = 0
    /\ fan_speed_set = 0 /\ prev_output = 0 /\ prev_speed = 0
    /\ calls = 0 /\ calc_temp = 0 /\ all_below = TRUE /\ non_rising = TRUE

InitLogState(old) ==
    /\ logfile = old /\ log_hist = old /\ log_events = 0
    /\ log_io = <<TRUE, TRUE>>

SetConfig(c) ==
    /\ thermal_file = c.thermal_file /\ fan_pwm_file = c.fan_pwm_file
    /\ fan_speed_file = c.fan_speed_file /\ start_speed = c.start_speed
    /\ target_temp = c.target_temp /\ max_speed = c.max_speed
    /\ temp_div = c.temp_div /\ debug_mode = c.debug_mode
    /\ Kp = c.Kp /\ Ki = c.Ki /\ Kd = c.Kd
    /\ log_interval = c.log_interval /\ pid_interval = c.pid_interval

(***************************************************************************)
(* One call of calculate_speed_set from the state (line 482), with the     *)
(* history it leaves.                                                      *)
(***************************************************************************)
CalcStep(current_temp) ==
    LET r == calculate_speed_set(pid, initialized,
                                 [Kp |-> Kp, Ki |-> Ki, Kd |-> Kd],
                                 current_temp, MAX_TEMP, target_temp,
                                 max_speed, start_speed)
        below == current_temp < target_temp * FP
    IN  /\ pid' = r.pid
        /\ initialized' = TRUE
        /\ output' = r.output
        /\ fan_speed_set' = r.speed
        /\ prev_output' = output
        /\ prev_speed' = fan_speed_set
        /\ calls' = calls + 1
        /\ all_below' = (all_below /\ below)
        /\ calc_temp' = current_temp
        /\ non_rising' = (non_rising /\ below
                             /\ (calls = 0 \/ current_temp <= calc_temp))

(***************************************************************************)
(* One call of log_temperature on the stored log (line 476).               *)
(***************************************************************************)
LogStep(time, current_temp, rd, wr) ==
    /\ logfile' = log_temperature(logfile, time, current_temp, log_interval, rd, wr)
    /\ log_hist' = IF ~wr THEN log_hist
                   ELSE IF rd THEN <<LogLine(time, current_temp)>> \o log_hist
                   ELSE <<LogLine(time, current_temp)>>
    /\ log_events' = log_events + 1
    /\ log_io' = <<rd, wr>>

(***************************************************************************)
(* SpecCalc: calculate_speed_set called on any sequence of temperatures,   *)
(* under any of a set of configurations.                                   *)
(***************************************************************************)
CalcGains == {[Kp |-> 500, Ki |-> 100, Kd |-> 1],
              [Kp |-> 0, Ki |-> 100, Kd |-> 100]}
CalcTargets == {55, 40}
\* <<max_speed, start_speed>>: the defaults, a start of 0, start equal to
\* max, start above max, a negative start, and negative maxima
CalcSpeeds == {<<255, 35>>, <<100, 0>>, <<7, 7>>, <<50, 100>>, <<10, -10>>,
               <<-1, 35>>, <<-3, -10>>}
\* measured temperatures: the failure value, below, just below, at and above
\* the target, far above
CalcTemps == {ReadFailure * FP, 4500, 5499, 5500, 6500, 9000}

InitCalc ==
    /\ \E g \in CalcGains, t \in CalcTargets, s \in CalcSpeeds :
          SetConfig([DefaultConfig EXCEPT !.Kp = g.Kp, !.Ki = g.Ki,
                        !.Kd = g.Kd, !.target_temp = t,
                        !.max_speed = s[1], !.start_speed = s[2]])
    /\ IdleProcess
    /\ InitCalcState
    /\ InitLogState(<< >>)

CalcCall ==
    /\ pc = "unit"
    /\ calls < MaxCalls
    /\ \E t \in CalcTemps :
          /\ temperature' = t
          /\ CalcStep(t)
    /\ UNCHANGED <<cfgVars, envVars, procVars, timerVars, logVars, now,
                   read_ok, fan_sink, stream, ticks>>
    /\ UNCHANGED auditVars

NextCalc == CalcCall
SpecCalc == InitCalc /\ [][NextCalc]_vars

(***************************************************************************)
(* SpecLog: log_temperature called on any sequence of temperatures, with   *)
(* any outcome of its two fopen calls, under any of a set of intervals.    *)
(***************************************************************************)
LogIntervals == {-5, 0, 10, 1200, 1800, 3600, 3601}
LogTemps == {ReadFailure * FP, 6500}
\* <<read_ok, write_ok>>
LogOutcomes == {<<TRUE, TRUE>>, <<FALSE, TRUE>>, <<TRUE, FALSE>>}

InitLogSpec ==
    /\ \E i \in LogIntervals :
          SetConfig([DefaultConfig EXCEPT !.log_interval = i])
    /\ IdleProcess
    /\ InitCalcState
    /\ InitLogState(<< >>)

LogCall ==
    /\ pc = "unit"
    /\ log_events < MaxLogEvents
    /\ \E t \in LogTemps, o \in LogOutcomes :
          /\ now' = now + 1
          /\ temperature' = t
          /\ LogStep(now', t, o[1], o[2])
    /\ UNCHANGED <<cfgVars, envVars, procVars, timerVars, calcVars,
                   read_ok, fan_sink, stream, ticks>>
    /\ UNCHANGED auditVars

NextLog == LogCall
SpecLog == InitLogSpec /\ [][NextLog]_vars

(***************************************************************************)
(* The program: main's startup sequence.  A configuration source is a      *)
(* function from the names it sets to their values (the text of an option  *)
(* or of a config line stands as the value atoi / atof / snprintf yield).  *)
(***************************************************************************)
OptLetters == {"T", "F", "S", "s", "t", "m", "d", "D"}
ConfigKeys == {"thermal_file", "fan_pwm_file", "fan_speed_file", "temp_div",
               "start_speed", "max_speed", "target_temp", "Kp", "Ki", "Kd",
               "log_interval", "pid_interval"}
CliValue == [T |-> "T_cli", F |-> "F_cli", S |-> "S_cli", s |-> 40,
             t |-> 60, m |-> 200, d |-> 100, D |-> 1]
ConfValue == [thermal_file |-> "T_cfg", fan_pwm_file |-> "F_cfg",
              fan_speed_file |-> "S_cfg", temp_div |-> 10,
              start_speed |-> 50, max_speed |-> 100, target_temp |-> 50,
              Kp |-> 200, Ki |-> 50, Kd |-> 0, log_interval |-> 5,
              pid_interval |-> 5]
AllPaths == {"T_def", "T_cli", "T_cfg", "F_def", "F_cli", "F_cfg"}
OldLine == [time |-> 0, temp |-> 0]     \* a line left by an earlier run

HasOpt(o) == o \in DOMAIN argv.opts
OptOr(o, current) == IF HasOpt(o) THEN argv.opts[o] ELSE current
HasKey(k) == config_file.exists /\ k \in DOMAIN config_file.kv
KeyOr(k, current) == IF HasKey(k) THEN config_file.kv[k] ELSE current

\* stat(name, &buffer) == 0
file_exist_Always(name) == TRUE
file_exist(name) == name \in fs

InitProgram(argvs, confs, fss, logs) ==
    /\ SetConfig(DefaultConfig)
    /\ argv \in argvs /\ config_file \in confs /\ fs \in fss
    /\ now = Epoch
    /\ pc = "start" /\ exit_code = 0 /\ handlers = FALSE
    /\ temperature = 0 /\ read_ok = TRUE
    /\ last_log_time = 0 /\ last_pid_time = 0
    /\ fan_sink = << >> /\ stream = ClosedStream /\ ticks = 0
    /\ checked = NoneChecked /\ signalled = FALSE
    /\ InitCalcState
    /\ \E old \in logs : InitLogState(old)

\* lines 406-444: the getopt loop; an unknown option prints the usage and
\* exits with EXIT_FAILURE
ParseArgs ==
    /\ pc = "start"
    /\ \/ /\ argv.bad
          /\ pc' = "exited" /\ exit_code' = 1
          /\ UNCHANGED cfgVars
       \/ /\ ~argv.bad
          /\ thermal_file' = OptOr("T", thermal_file)
          /\ fan_pwm_file' = OptOr("F", fan_pwm_file)
          /\ fan_speed_file' = OptOr("S", fan_speed_file)
          /\ start_speed' = OptOr("s", start_speed)
          /\ target_temp' = OptOr("t", target_temp)
          /\ max_speed' = OptOr("m", max_speed)
          /\ temp_div' = OptOr("d", temp_div)
          /\ debug_mode' = OptOr("D", debug_mode)
          /\ pc' = "check" /\ UNCHANGED exit_code
          /\ UNCHANGED <<Kp, Ki, Kd, log_interval, pid_interval>>
    /\ UNCHANGED <<envVars, handlers, timerVars, calcVars, logVars, now,
                   temperature, read_ok, fan_sink, stream, ticks>>
    /\ UNCHANGED auditVars

\* lines 446-450
CheckFiles ==
    /\ pc = "check"
    /\ \/ /\ file_exist(fan_pwm_file) /\ file_exist(thermal_file)
          /\ pc' = "signals" /\ UNCHANGED exit_code
          /\ checked' = [thermal |-> thermal_file, pwm |-> fan_pwm_file]
       \/ /\ ~(file_exist(fan_pwm_file) /\ file_exist(thermal_file))
          /\ pc' = "exited" /\ exit_code' = 1
          /\ UNCHANGED checked
    /\ UNCHANGED signalled
    /\ UNCHANGED <<cfgVars, envVars, handlers, timerVars, calcVars, logVars,
                   now, temperature, read_ok, fan_sink, stream, ticks>>

\* line 453
register_signal_handlers ==
    /\ pc = "signals"
    /\ handlers' = TRUE
    /\ pc' = "config"
    /\ UNCHANGED <<cfgVars, envVars, exit_code, timerVars, calcVars, logVars,
                   now, temperature, read_ok, fan_sink, stream, ticks>>
    /\ UNCHANGED auditVars

\* line 456: a file that cannot be opened leaves every variable as it is
parse_config_file ==
    /\ pc = "config"
    /\ thermal_file' = KeyOr("thermal_file", thermal_file)
    /\ fan_pwm_file' = KeyOr("fan_pwm_file", fan_pwm_file)
    /\ fan_speed_file' = KeyOr("fan_speed_file", fan_speed_file)
    /\ temp_div' = KeyOr("temp_div", temp_div)
    /\ start_speed' = KeyOr("start_speed", start_speed)
    /\ max_speed' = KeyOr("max_speed", max_speed)
    /\ target_temp' = KeyOr("target_temp", target_temp)
    /\ Kp' = KeyOr("Kp", Kp)
    /\ Ki' = KeyOr("Ki", Ki)
    /\ Kd' = KeyOr("Kd", Kd)
    /\ log_interval' = KeyOr("log_interval", log_interval)
    /\ pid_interval' = KeyOr("pid_interval", pid_interval)
    /\ UNCHANGED debug_mode
    /\ pc' = "initlog"
    /\ UNCHANGED <<envVars, exit_code, handlers, timerVars, calcVars, logVars,
                   now, temperature, read_ok, fan_sink, stream, ticks>>
    /\ UNCHANGED auditVars

\* lines 458-466: the old log is emptied when it can be opened for writing;
\* the timers start at 0 and fan_speed_set at start_speed
InitLog ==
    /\ pc = "initlog"
    /\ \/ logfile' = << >> /\ log_hist' = << >>
       \/ UNCHANGED <<logfile, log_hist>>
    /\ UNCHANGED <<log_events, log_io>>
    /\ last_log_time' = 0 /\ last_pid_time' = 0
    /\ fan_speed_set' = start_speed
    /\ pc' = "loop"
    /\ UNCHANGED <<cfgVars, envVars, exit_code, handlers, pid, initialized,
                   output, prev_output, prev_speed, calls, calc_temp,
                   all_below, non_rising, now, temperature, read_ok, fan_sink, stream,
                   ticks>>
    /\ UNCHANGED auditVars

(***************************************************************************)
(* The control loop (lines 468-489).                                       *)
(***************************************************************************)
RawTemps == {45000, 65000}      \* the sensor's raw readings
Readings == {[ok |-> FALSE, raw |-> 0]} \cup
            {[ok |-> TRUE, raw |-> r] : r \in RawTemps}
Deltas == {1, 2}                \* seconds from one reading of the clock to the next

\* (float)atoi(buf) / div, or -1.0 when the file cannot be opened
get_temperature(reading, div) ==
    IF reading.ok THEN TruncDiv(reading.raw * FP, div) ELSE ReadFailure * FP

Due_Always(time, last, interval) == TRUE
Due_Strict(time, last, interval) == time - last > interval
\* difftime(now, last) >= interval
Due(time, last, interval) == time - last >= interval

\* a value handed to the fan endpoint: where, what, by whom, and the clock
\* reading and the loop iteration of the write
SinkEntry(v, who) ==
    [path |-> fan_pwm_file, val |-> v, by |-> who, time |-> now, tick |-> ticks]

\* lines 469-482: read the temperature and the clock, log when the log
\* interval has elapsed, run the PID when the PID interval has elapsed
LoopTick ==
    /\ pc \in {"loop", "sleep"}
    /\ ticks < MaxTicks
    /\ \E rdg \in Readings, d \in Deltas, o \in LogOutcomes :
          LET reading == IF file_exist(thermal_file) THEN rdg
                         ELSE [ok |-> FALSE, raw |-> 0]
              t == get_temperature(reading, temp_div)
              time == now + d
          IN  /\ temperature' = t
              /\ read_ok' = reading.ok
              /\ now' = time
              /\ IF Due(time, last_log_time, log_interval)
                 THEN /\ LogStep(time, t, o[1], o[2])
                      /\ last_log_time' = time
                 ELSE UNCHANGED <<logVars, last_log_time>>
              /\ IF Due(time, last_pid_time, pid_interval)
                 THEN CalcStep(t) /\ pc' = "fopen"
                 ELSE UNCHANGED calcVars /\ pc' = "sleep"
    /\ ticks' = ticks + 1
    /\ UNCHANGED <<cfgVars, envVars, exit_code, handlers, last_pid_time,
                   fan_sink, stream>>
    /\ UNCHANGED auditVars

\* set_fanspeed -> write_file, line 176: fopen(path, "w+")
WriteOpen ==
    /\ pc = "fopen"
    /\ \/ /\ file_exist(fan_pwm_file)
          /\ stream' = [open |-> TRUE, buf |-> << >>]
          /\ pc' = "fwrite"
          /\ UNCHANGED last_pid_time
       \/ /\ pc' = "sleep"              \* fopen fails: write_file returns 0
          /\ last_pid_time' = now
          /\ UNCHANGED stream
    /\ UNCHANGED <<cfgVars, envVars, exit_code, handlers, last_log_time,
                   calcVars, logVars, now, temperature, read_ok, fan_sink,
                   ticks>>
    /\ UNCHANGED auditVars

\* line 180: fwrite leaves the text in the stream's buffer
WriteBuffer ==
    /\ pc = "fwrite"
    /\ stream' = [stream EXCEPT !.buf = <<fan_speed_set>>]
    /\ pc' = "fclose"
    /\ UNCHANGED <<cfgVars, envVars, exit_code, handlers, timerVars,
                   calcVars, logVars, now, temperature, read_ok, fan_sink,
                   ticks>>
    /\ UNCHANGED auditVars

\* line 181: fclose writes the buffer to the endpoint; then line 484
WriteClose ==
    /\ pc = "fclose"
    /\ fan_sink' = Append(fan_sink, SinkEntry(stream.buf[1], "loop"))
    /\ stream' = ClosedStream
    /\ last_pid_time' = now
    /\ pc' = "sleep"
    /\ UNCHANGED <<cfgVars, envVars, exit_code, handlers, last_log_time,
                   calcVars, logVars, now, temperature, read_ok, ticks>>
    /\ UNCHANGED auditVars

\* lines 386-390, on SIGINT / SIGTERM once the handlers are registered:
\* set_fanspeed(0) through a stream of its own, then exit(), which flushes
\* every stream still open: the loop's buffered text reaches the endpoint
\* after the handler's 0.  exit() is not async-signal-safe: when the signal
\* lands inside the loop's fwrite or fclose the flush may also not happen.
handle_termination ==
    /\ handlers
    /\ pc \in {"config", "initlog", "loop", "fopen", "fwrite", "fclose", "sleep"}
    /\ \E opened \in BOOLEAN, flushed \in BOOLEAN :
          LET zero == IF opened /\ file_exist(fan_pwm_file)
                      THEN <<SinkEntry(0, "handler")>> ELSE << >>
              rest == IF stream.open /\ stream.buf # << >> /\ flushed
                      THEN <<SinkEntry(stream.buf[1], "loop")>> ELSE << >>
          IN  fan_sink' = fan_sink \o zero \o rest
    /\ stream' = ClosedStream
    /\ pc' = "exited" /\ exit_code' = 0
    /\ signalled' = TRUE /\ UNCHANGED checked
    /\ UNCHANGED <<cfgVars, envVars, handlers, timerVars, calcVars, logVars,
                   now, temperature, read_ok, ticks>>

(***************************************************************************)
(* Spec: the whole program under a few configurations.                     *)
(***************************************************************************)
NoOpts == [bad |-> FALSE, opts |-> << >>]
ArgvMain == {NoOpts,
             [bad |-> FALSE, opts |-> [s |-> 100, m |-> 50]],
             [bad |-> TRUE, opts |-> << >>]}
NoConfigFile == [exists |-> FALSE, kv |-> << >>]
ConfMain == {NoConfigFile,
             [exists |-> TRUE, kv |-> [pid_interval |-> 2, log_interval |-> 1]],
             [exists |-> TRUE, kv |-> [pid_interval |-> 1, log_interval |-> 2,
                                       fan_pwm_file |-> "F_cfg"]]}
\* the endpoints that exist: all, or all but the default thermal path
FsMain == {AllPaths, AllPaths \ {"T_def"}}

Init == InitProgram(ArgvMain, ConfMain, FsMain, {<<OldLine>>})

Next ==
    \/ ParseArgs
    \/ CheckFiles
    \/ register_signal_handlers
    \/ parse_config_file
    \/ InitLog
    \/ LoopTick
    \/ WriteOpen
    \/ WriteBuffer
    \/ WriteClose
    \/ handle_termination

Spec == Init /\ [][Next]_vars

\* while (1) { ... sleep(1); } is sequential code: every statement of the
\* loop body returns, so each step of the loop that can be taken is taken.
\* Nothing forces a signal to arrive.
LoopFairness ==
    /\ WF_vars(LoopTick)
    /\ WF_vars(WriteOpen)
    /\ WF_vars(WriteBuffer)
    /\ WF_vars(WriteClose)
\* the same program started without options; the configuration file, when
\* there is one, asks for a PID evaluation every second or every other second
\* and for a log entry every 900 seconds
ConfLive == {NoConfigFile,
             [exists |-> TRUE, kv |-> [pid_interval |-> 1, log_interval |-> 900]],
             [exists |-> TRUE, kv |-> [pid_interval |-> 2, log_interval |-> 900]]}
InitLive == InitProgram({NoOpts}, ConfLive, FsMain, {<<OldLine>>})
SpecLive == InitLive /\ [][Next]_vars /\ LoopFairness

(***************************************************************************)
(* SpecStartup: the startup sequence up to the entry of the loop, under    *)
(* every choice of at most MaxOpts options on the command line and at most *)
(* MaxOpts keys in the config file.                                        *)
(***************************************************************************)
UpTo(S, k) == {D \in SUBSET S : Cardinality(D) <= k}
ArgvAll == {[bad |-> FALSE, opts |-> [o \in D |-> CliValue[o]]] :
                D \in UpTo(OptLetters, MaxOpts)}
           \cup {[bad |-> TRUE, opts |-> << >>]}
ConfAll == {[exists |-> TRUE, kv |-> [k \in D |-> ConfValue[k]]] :
                D \in UpTo(ConfigKeys, MaxOpts)}
           \cup {NoConfigFile}
FsStartup == {AllPaths, AllPaths \ {"F_def"}, AllPaths \ {"T_cli"}}

InitStartup == InitProgram(ArgvAll, ConfAll, FsStartup, {<<OldLine>>})

NextStartup ==
    \/ ParseArgs
    \/ CheckFiles
    \/ register_signal_handlers
    \/ parse_config_file
    \/ InitLog

SpecStartup == InitStartup /\ [][NextStartup]_vars

(***************************************************************************)
(* Properties.                                                             *)
(***************************************************************************)
\* PID outputs on both sides of 0 and of 100, in units of 1/OutScale
OutputSamples == {-5 * OutScale, -1, 0, 1, 499, 25000, 50 * OutScale, 601000,
                  100 * OutScale, 100 * OutScale + 1, 250 * OutScale}
Called == calls > 0
NonNegativeGains == Kp >= 0 /\ Ki >= 0 /\ Kd >= 0
MappedSpeed(o) == SpeedFromOutput(o, max_speed, start_speed)

\* C1: for every PID output, every max_speed >= 0 and every min_speed the
\* mapped speed is in [0, max_speed]; so is every value that the loop or the
\* termination handler hands to the fan endpoint.
C1_SpeedInRange ==
    /\ \A s \in CalcSpeeds : \A o \in OutputSamples :
          s[1] >= 0 => SpeedFromOutput(o, s[1], s[2]) \in 0..s[1]
    /\ max_speed >= 0 =>
          /\ \A i \in DOMAIN fan_sink : fan_sink[i].val \in 0..max_speed
          /\ Called => fan_speed_set \in 0..max_speed
\* the loop has written a speed cut down to max_speed (start_speed above
\* it) and the handler then wrote its 0
C1_Witness ==
    /\ start_speed > max_speed /\ max_speed > 0
    /\ \E i \in DOMAIN fan_sink : \E j \in DOMAIN fan_sink :
          /\ i < j
          /\ fan_sink[i].by = "loop" /\ fan_sink[i].val = max_speed
          /\ fan_sink[j].by = "handler" /\ fan_sink[j].val = 0

\* C2: after any sequence of PID steps from integral = 0, with any measured
\* temperatures and any setpoint, the integral is within [0, 100].
C2_IntegralBounded ==
    /\ pid.integral >= 0
    /\ pid.integral <= IntegralMax * FP
\* the third step at 90 degrees against 55 would carry the integral to 105
C2_Witness ==
    /\ calls >= 3 /\ target_temp = 55
    /\ pid.prev_error = 3500 /\ pid.integral = IntegralMax * FP

\* C3: for every log interval L >= 1 the log never holds more than
\* max(1, 3600 / L) entries.
C3_LogBound ==
    log_interval >= 1 =>
        Len(logfile) <= Max(1, HourSeconds \div log_interval)

\* C4: once the termination handler has written its 0 to the fan endpoint,
\* no speed of the loop takes effect there any more: the last value that
\* reached the endpoint is 0.
C4_ZeroIsLast ==
    (\E i \in DOMAIN fan_sink : fan_sink[i].by = "handler") =>
        fan_sink[Len(fan_sink)].val = 0

\* C5 as claimed: a PID output <= 0 maps to speed 0 for every min_speed and
\* every max_speed.
C5_ZeroAtNoDemand_AnyMax ==
    (Called /\ output <= 0) => fan_speed_set = 0
\* C5 as amended: a PID output <= 0 maps to speed 0 for every min_speed and
\* every max_speed >= 0.
C5_ZeroAtNoDemand ==
    max_speed >= 0 =>
        /\ (Called /\ output <= 0) => fan_speed_set = 0
        /\ \A o \in OutputSamples : o <= 0 => MappedSpeed(o) = 0
C5_Witness ==
    /\ Called /\ output = 0 /\ start_speed > 0 /\ max_speed > 0
    /\ fan_speed_set = 0

\* C6 as claimed (read with a max_speed >= 0, C5's case apart): with
\* non-negative gains, when every measured temperature was strictly below
\* the target, the output is <= 0 and the commanded speed is 0.
C6_BelowTargetStops_AnySequence ==
    (Called /\ NonNegativeGains /\ max_speed >= 0 /\ all_below) =>
        (output <= 0 /\ fan_speed_set = 0)
\* C6 as amended: with non-negative gains and max_speed >= 0, when every
\* measured temperature was strictly below the target and none was above
\* the one measured before it, the output is <= 0 and the commanded speed
\* is 0.
C6_BelowTargetStops ==
    (Called /\ NonNegativeGains /\ max_speed >= 0 /\ non_rising) =>
        (output <= 0 /\ fan_speed_set = 0)
C6_Witness ==
    /\ calls >= 2 /\ non_rising /\ start_speed > 0 /\ max_speed > 0
    /\ pid.integral = 0 /\ output < 0 /\ fan_speed_set = 0

\* C7: a tick whose temperature read fails appends no log line, does not
\* advance the PID state and commands no new speed.
C7_FailedReadSkipsTick ==
    [][(ticks' = ticks + 1 /\ ~read_ok') =>
          (/\ logfile' = logfile
           /\ pid' = pid /\ initialized' = initialized
           /\ fan_speed_set' = fan_speed_set
           /\ pc' # "fopen")]_vars

\* C8: when the loop starts, each parameter that both sources can set holds
\* the command-line value if given, else the config-file value if given,
\* else the default.
Effective(o, k) ==
    IF HasOpt(o) THEN argv.opts[o]
    ELSE IF HasKey(k) THEN config_file.kv[k]
    ELSE DefaultConfig[k]
C8_CommandLineWins ==
    pc = "loop" =>
        /\ thermal_file = Effective("T", "thermal_file")
        /\ fan_pwm_file = Effective("F", "fan_pwm_file")
        /\ fan_speed_file = Effective("S", "fan_speed_file")
        /\ start_speed = Effective("s", "start_speed")
        /\ target_temp = Effective("t", "target_temp")
        /\ max_speed = Effective("m", "max_speed")
        /\ temp_div = Effective("d", "temp_div")

\* C9 as claimed: for every min_speed and max_speed the mapped speed is
\* non-decreasing in the PID output.
C9_Monotone_AnyMax ==
    /\ (calls >= 2 /\ prev_output <= output) => prev_speed <= fan_speed_set
    /\ (calls >= 2 /\ output <= prev_output) => fan_speed_set <= prev_speed
\* C9 as amended: for every min_speed and every max_speed >= 0 the mapped
\* speed is non-decreasing in the PID output.
C9_Monotone ==
    max_speed >= 0 =>
        /\ \A a \in OutputSamples \cup {output, prev_output} :
           \A b \in OutputSamples \cup {output, prev_output} :
              a <= b => MappedSpeed(a) <= MappedSpeed(b)
        /\ (calls >= 2 /\ prev_output <= output) => prev_speed <= fan_speed_set
        /\ (calls >= 2 /\ output <= prev_output) => fan_speed_set <= prev_speed
\* two calls across the 0 boundary with start_speed above max_speed
C9_Witness ==
    /\ calls >= 2 /\ max_speed >= 0 /\ start_speed > max_speed
    /\ prev_output <= 0 /\ output > 0
    /\ prev_speed = 0 /\ fan_speed_set = max_speed

\* C10: for L >= 1 and c = max(1, 3600 / L), after n log events from the
\* empty log the log holds the min(n, c) most recent lines, newest first.
C10_NewestKept ==
    log_interval >= 1 =>
        LET c == Max(1, HourSeconds \div log_interval)
            n == Len(log_hist)
        IN  logfile = SubSeq(log_hist, 1, Min(n, c))

(***************************************************************************)
(* C11: startup with a missing endpoint.                                   *)
(***************************************************************************)
\* the endpoints main() has in hand when it reaches the existence check:
\* the command line's -F / -T, else the built-in paths
StartupPwm ==
    IF "F" \in DOMAIN argv.opts THEN argv.opts["F"]
    ELSE DefaultConfig.fan_pwm_file
StartupThermal ==
    IF "T" \in DOMAIN argv.opts THEN argv.opts["T"]
    ELSE DefaultConfig.thermal_file
EndpointMissing == ~(StartupPwm \in fs /\ StartupThermal \in fs)

LoopPcs == {"loop", "fopen", "fwrite", "fclose", "sleep"}
AtLoopTop == pc \in {"loop", "sleep"}
\* the clock advances by at least one second per iteration, so the PID
\* interval has elapsed after at most this many more iterations
TicksUntilDue == Max(1, pid_interval - (now - last_pid_time))
\* the iterations left to this model's run are enough for that
RoomToEvaluate == ticks + TicksUntilDue <= MaxTicks
\* calculate_speed_set has just returned (line 482): only an iteration that
\* runs the PID leads here
Evaluated == pc = "fopen"
\* set_fanspeed has been entered for the latest evaluation: fopen was tried
FanWriteAttempted == pc \in {"fwrite", "fclose", "sleep"}

LoopWrites == {i \in DOMAIN fan_sink : fan_sink[i].by = "loop"}

\* C13: an iteration of the loop runs the PID and goes on to write the fan
\* speed exactly when the time since the previous evaluation is at least
\* pid_interval, and the first iteration always does; so with
\* pid_interval >= 1 two writes of the loop are at least pid_interval apart
\* and no iteration writes twice.
C13_PacedByInterval ==
    /\ [][ticks' = ticks + 1 =>
            IF now' - last_pid_time >= pid_interval
            THEN calls' = calls + 1 /\ pc' = "fopen"
            ELSE calls' = calls /\ pc' = "sleep" /\ fan_sink' = fan_sink]_vars
    /\ [][(ticks = 0 /\ ticks' = 1) => calls' = 1]_vars
    /\ [][fan_sink' # fan_sink => pc \in {"fclose"} \/ signalled']_vars
    /\ [](pid_interval >= 1 =>
            \A i \in LoopWrites : \A j \in LoopWrites :
                i < j => /\ fan_sink[j].time - fan_sink[i].time >= pid_interval
                         /\ fan_sink[j].tick > fan_sink[i].tick)

C13_Witness ==
    /\ pid_interval = 2
    /\ \E i \in LoopWrites : \E j \in LoopWrites :
          i < j /\ fan_sink[j].time - fan_sink[i].time = pid_interval

(***************************************************************************)
(* C14: one PID step.                                                      *)
(***************************************************************************)
DefaultGains ==
    /\ Kp = DefaultConfig.Kp /\ Ki = DefaultConfig.Ki /\ Kd = DefaultConfig.Kd

\* C14: one evaluation with dt = 1 takes error = measured - setpoint, adds it
\* to the integral and limits the sum to [0, 100], stores the error as the
\* previous error, and returns Kp*error + Ki*(the limited integral) +
\* Kd*(error - the previous error as it was before); from the initial state
\* with Kp = 5, Ki = 1, Kd = 0.01, setpoint 55 and measured 65 the result is
\* 60.1 with integral 10 and previous error 10.
C14_PidStep ==
    /\ [][calls' = calls + 1 =>
            LET error == temperature' - target_temp * FP
                integral == Max(0, Min(100 * FP, pid.integral + error))
            IN  /\ pid'.integral = integral
                /\ pid'.prev_error = error
                /\ output' = Kp * error + Ki * integral
                                + Kd * (error - pid.prev_error)]_vars
    /\ []((calls = 1 /\ DefaultGains /\ target_temp = 55 /\ calc_temp = 65 * FP)
            => /\ output = 601 * (OutScale \div 10)
               /\ pid.integral = 10 * FP /\ pid.prev_error = 10 * FP)

C14_Witness ==
    /\ calls = 2 /\ DefaultGains /\ target_temp = 55
    /\ temperature = 65 * FP /\ prev_output = 601 * (OutScale \div 10)
    /\ pid.integral = 20 * FP /\ output = 70 * OutScale

(***************************************************************************)
(* C15: the mapping from PID output to speed.                              *)
(***************************************************************************)
\* n / d rounded to the nearest integer, halves upwards (d > 0)
NearestHalfUp(n, d) == (2 * n + d) \div (2 * d)
\* min + clamp(o, 0, 100) / 100 * (max - min), rounded
Interpolated(o, lo, hi) ==
    NearestHalfUp(lo * PctDen + Max(0, Min(100 * OutScale, o)) * (hi - lo),
                  PctDen)
OrderedSpeeds == 0 <= start_speed /\ start_speed <= max_speed

\* C15: with 0 <= start_speed <= max_speed every positive PID output is
\* mapped to start_speed + clamp(output, 0, 100)/100 * (max_speed -
\* start_speed) rounded to the nearest integer, halves upwards; an output of
\* 100 or more gives exactly max_speed; 60.1 with 35 and 255 gives 167.
C15_LinearMap ==
    OrderedSpeeds =>
        /\ (Called /\ output > 0) =>
                /\ fan_speed_set = Interpolated(output, start_speed, max_speed)
                /\ output >= 100 * OutScale => fan_speed_set = max_speed
        /\ \A o \in OutputSamples :
                o > 0 =>
                    /\ MappedSpeed(o) = Interpolated(o, start_speed, max_speed)
                    /\ o >= 100 * OutScale => MappedSpeed(o) = max_speed
        /\ (start_speed = 35 /\ max_speed = 255) =>
                MappedSpeed(601 * (OutScale \div 10)) = 167

C15_Witness ==
    /\ Called /\ start_speed = 35 /\ max_speed = 255
    /\ output = 601 * (OutScale \div 10) /\ fan_speed_set = 167
    /\ MappedSpeed(25000) = 41

(***************************************************************************)
(* C16: log events whose file operations fail.                             *)
(***************************************************************************)
LogEvent == log_events' = log_events + 1

\* C16: when the log cannot be opened for writing at a log event, the stored
\* log stays as it was, nothing fails, the loop goes on and the log timer is
\* reset all the same; when the log cannot be read but can be written, the
\* stored log afterwards is exactly the one new entry.
C16_LogFailuresContained ==
    [][LogEvent =>
        /\ ~log_io'[2] => logfile' = logfile
        /\ (log_io'[2] /\ ~log_io'[1]) =>
                logfile' = <<LogLine(now', temperature')>>
        /\ last_log_time' = now'
        /\ pc' \in {"fopen", "sleep"} /\ exit_code' = exit_code]_vars

C16_Witness ==
    /\ log_events >= 2 /\ ~log_io[2]
    /\ logfile # << >> /\ logfile[1].time < now
    /\ last_log_time = now /\ pc \in {"fopen", "sleep"}

(***************************************************************************)
(* C17: a running fan never runs below its start speed.                    *)
(***************************************************************************)
StoppedOrRunning(v) == v = 0 \/ (start_speed <= v /\ v <= max_speed)

\* C17: when 0 <= start_speed <= max_speed, every speed that the loop
\* computes and every speed that it writes to the fan endpoint is either 0
\* or within [start_speed, max_speed]; so is the speed of every PID output.
C17_StoppedOrAtLeastStart ==
    OrderedSpeeds =>
        /\ Called => StoppedOrRunning(fan_speed_set)
        /\ \A i \in LoopWrites : StoppedOrRunning(fan_sink[i].val)
        /\ stream.buf # << >> => StoppedOrRunning(stream.buf[1])
        /\ \A o \in OutputSamples : StoppedOrRunning(MappedSpeed(o))

C17_Witness ==
    /\ OrderedSpeeds /\ start_speed > 0
    /\ \E i \in LoopWrites : fan_sink[i].val = 0
    /\ \E j \in LoopWrites : fan_sink[j].val >= start_speed

(***************************************************************************)
(* C18: what each part of an iteration leaves alone.                       *)
(***************************************************************************)
Evaluation == calls' = calls + 1
Tick == ticks' = ticks + 1
PidNotDue == now' - last_pid_time < pid_interval
LogNotDue == now' - last_log_time < log_interval
PidStateUnchanged == pid' = pid /\ initialized' = initialized
\* the integral after one more step from the stored integral
Continued == Max(0, Min(100 * FP, pid.integral + pid'.prev_error))
InWrite == pc \in {"fopen", "fwrite", "fclose"}
LogUnchanged == logfile' = logfile /\ last_log_time' = last_log_time

\* C18: the PID state (integral, previous error, gains) is set up once, on
\* the first evaluation, and changes only during an evaluation, which
\* continues from the stored state; an iteration on which the PID interval
\* has not elapsed, with or without a log event, leaves the PID state, the
\* PID timer and the last computed speed as they were; an evaluation and the
\* write that follows it leave the rolling log and the log timer as they were
\* (an iteration that also logs changes them by its log event only).
C18_Frame ==
    /\ [][~PidStateUnchanged => Evaluation]_vars
    /\ [][initialized =>
            (/\ initialized'
             /\ pid'.Kp = pid.Kp /\ pid'.Ki = pid.Ki /\ pid'.Kd = pid.Kd
             /\ Evaluation => pid'.integral = Continued)]_vars
    /\ [][(Tick /\ PidNotDue) =>
            /\ PidStateUnchanged
            /\ last_pid_time' = last_pid_time
            /\ fan_speed_set' = fan_speed_set
            /\ fan_sink' = fan_sink]_vars
    /\ [][LogEvent => (last_pid_time' = last_pid_time /\ fan_sink' = fan_sink)]_vars
    /\ [][(Evaluation /\ LogNotDue) => (LogUnchanged /\ ~LogEvent)]_vars
    /\ [][InWrite => (LogUnchanged /\ ~LogEvent)]_vars
    /\ [][~LogUnchanged => (LogEvent \/ pc = "initlog")]_vars

C18_Witness ==
    /\ pc = "sleep" /\ ticks = 2 /\ calls = 1 /\ log_events = 2
    /\ initialized /\ pid.integral = 10 * FP
    /\ now > last_pid_time /\ last_log_time = now
    /\ Len(fan_sink) = 1

(***************************************************************************)
(* C19: the endpoints in use are the endpoints that were checked.          *)
(***************************************************************************)
\* C19: every value that reaches a fan endpoint, from the loop or from the
\* termination handler, reaches the fan path that passed the startup
\* existence check, and once the loop has read a temperature the path it
\* reads is the temperature path that passed the check.
C19_CheckedEndpointsUsed ==
    /\ \A i \in DOMAIN fan_sink : fan_sink[i].path = checked.pwm
    /\ ticks > 0 => thermal_file = checked.thermal


====
